---- MODULE Spec2Model ----
(***************************************************************************)
(* Model of AttributeContextArgs.__post_init__                             *)
(* (inseq/commands/attribute_context/attribute_context_args.py).           *)
(*                                                                         *)
(* A template string is a sequence of tokens: the two placeholders         *)
(* "{context}" and "{current}" and single literal characters.  The two     *)
(* placeholders cannot overlap in a Python string (each starts with "{",   *)
(* ends with "}" and has no brace inside), so every string splits in one   *)
(* way only and `in`, str.find, str.endswith and str.partition are         *)
(* computed on the token sequence, with character offsets restored by      *)
(* Width.  An Optional[...] value is None (<<>>) or Some(v) (<<v>>).       *)
(***************************************************************************)
EXTENDS Integers, Sequences, FiniteSets, TLC

\* ---------------------------------------------------------------- bounds
MaxTemplateLen == 2
MaxNextTokens == 1

\* ------------------------------------------------------------ vocabulary
CTX == "{context}"
CUR == "{current}"
SP == " "
\* the tokens of the templates a caller passes; SP, a literal character,
\* comes in through the default template "{context} {current}"
TemplateTokens == {CTX, CUR}

None == <<>>
Some(v) == <<v>>
Val(o) == o[1]

MANUAL == "manual"
AUTO == "auto"
PRE == "pre"
HandleOutputContextSetting == {MANUAL, AUTO, PRE}

NoError == "none"
ValueError == "ValueError"
TypeError == "TypeError"

SeqsUpTo(S, n) == UNION {[1..k -> S] : k \in 0..n}

Templates == SeqsUpTo(TemplateTokens, MaxTemplateLen)
OptTemplates == {None} \cup {Some(t) : t \in Templates}
OptContextTexts == {None, Some(""), Some("World")}
InputCurrentTexts == {"", "Hello"}
\* output_current_text is never read by __post_init__: one value stands for all
OptOutputCurrentTexts == {Some("Hola")}
OptContextlessTexts == {None, Some(<<>>)}
NextTokenLists == SeqsUpTo({"tok"}, MaxNextTokens)

\* the keyword arguments a caller may pass to the generated __init__
KwArgs ==
    [input_current_text : InputCurrentTexts,
     input_context_text : OptContextTexts,
     input_template : OptTemplates,
     output_context_text : OptContextTexts,
     output_current_text : OptOutputCurrentTexts,
     output_template : OptTemplates,
     contextless_input_current_text : OptContextlessTexts,
     handle_output_context_strategy : HandleOutputContextSetting,
     contextless_output_next_tokens : NextTokenLists,
     prompt_user_for_contextless_output_next_tokens : BOOLEAN]

\* ------------------------------------------------------ string functions
\* number of characters of a token
Width(tok) == IF tok \in {CTX, CUR} THEN 9 ELSE 1

\* Python: tok in tpl
Contains(tpl, tok) == \E i \in 1..Len(tpl) : tpl[i] = tok

\* index in the token sequence of the first occurrence (0 when absent)
FirstPos(tpl, tok) ==
    IF Contains(tpl, tok)
    THEN CHOOSE i \in 1..Len(tpl) : tpl[i] = tok /\ \A j \in 1..(i - 1) : tpl[j] # tok
    ELSE 0

RECURSIVE Offset(_, _)
\* number of characters of the first n tokens
Offset(tpl, n) == IF n = 0 THEN 0 ELSE Offset(tpl, n - 1) + Width(tpl[n])

\* Python: tpl.find(tok), a character offset, -1 when absent
Find(tpl, tok) ==
    IF Contains(tpl, tok) THEN Offset(tpl, FirstPos(tpl, tok) - 1) ELSE -1

\* Python: tpl.endswith(tok)
EndsWith(tpl, tok) == Len(tpl) > 0 /\ tpl[Len(tpl)] = tok

\* Python: *_, suffix = tpl.partition(tok)
PartitionSuffix(tpl, tok) ==
    IF Contains(tpl, tok) THEN SubSeq(tpl, FirstPos(tpl, tok) + 1, Len(tpl)) ELSE <<>>

\* Python truth value of an Optional[str]: None and "" are falsy
Truthy(o) == o # None /\ Val(o) # ""

\* ------------------------------------------------------- object at entry
\* the object as the generated dataclass __init__ leaves it
NewObject(kw) ==
    [input_current_text |-> kw.input_current_text,
     input_context_text |-> kw.input_context_text,
     input_template |-> kw.input_template,
     output_context_text |-> kw.output_context_text,
     output_current_text |-> kw.output_current_text,
     output_template |-> kw.output_template,
     contextless_input_current_text |-> kw.contextless_input_current_text,
     handle_output_context_strategy |-> kw.handle_output_context_strategy,
     contextless_output_next_tokens |-> kw.contextless_output_next_tokens,
     prompt_user_for_contextless_output_next_tokens |->
         kw.prompt_user_for_contextless_output_next_tokens,
     has_input_context |-> None,
     has_output_context |-> None,
     warnings |-> {},
     raised |-> NoError]

Raise(s, exc) == [s EXCEPT !.raised = exc]

\* ------------------------------------------- the steps of __post_init__
\* lines 219-227; `"{context}" in None` is a TypeError
CheckPreStrategy(s) ==
    IF s.handle_output_context_strategy = PRE /\ ~Truthy(s.output_context_text)
    THEN IF s.output_template = None
         THEN Raise(s, TypeError)
         ELSE IF Contains(Val(s.output_template), CTX) THEN Raise(s, ValueError) ELSE s
    ELSE s

\* mutant: the length test is off by one
CheckNextTokensOffByOne(s) ==
    IF Len(s.contextless_output_next_tokens) > 1
       /\ s.prompt_user_for_contextless_output_next_tokens
    THEN Raise(s, ValueError)
    ELSE s

\* lines 228-232
CheckNextTokens(s) ==
    IF Len(s.contextless_output_next_tokens) > 0
       /\ s.prompt_user_for_contextless_output_next_tokens
    THEN Raise(s, ValueError)
    ELSE s

\* lines 233-234
DefaultInputTemplate(s) ==
    IF s.input_template = None
    THEN [s EXCEPT !.input_template =
             IF s.input_context_text = None THEN Some(<<CUR>>) ELSE Some(<<CTX, SP, CUR>>)]
    ELSE s

\* lines 235-236
DefaultOutputTemplate(s) ==
    IF s.output_template = None
    THEN [s EXCEPT !.output_template =
             IF s.output_context_text = None THEN Some(<<CUR>>) ELSE Some(<<CTX, SP, CUR>>)]
    ELSE s

\* mutant: the `is None` test is dropped
DefaultContextlessInputAlways(s) ==
    [s EXCEPT !.contextless_input_current_text = Some(<<CUR>>)]

\* lines 237-238
DefaultContextlessInput(s) ==
    IF s.contextless_input_current_text = None
    THEN [s EXCEPT !.contextless_input_current_text = Some(<<CUR>>)]
    ELSE s

\* mutant: both flags are computed from input_template
SetHasContextFromInput(s) ==
    [s EXCEPT !.has_input_context = Some(Contains(Val(s.input_template), CTX)),
              !.has_output_context = Some(Contains(Val(s.input_template), CTX))]

\* lines 239-240
SetHasContext(s) ==
    [s EXCEPT !.has_input_context = Some(Contains(Val(s.input_template), CTX)),
              !.has_output_context = Some(Contains(Val(s.output_template), CTX))]

\* mutant: the test reads input_context_text
InputCurrentTextMissingWrongField(s) == ~Truthy(s.input_context_text)

\* the condition of lines 241 and 264
InputCurrentTextMissing(s) == s.input_current_text = ""

\* lines 241-242
CheckInputCurrentText(s) ==
    IF InputCurrentTextMissing(s) THEN Raise(s, ValueError) ELSE s

\* lines 243-248
IgnoreInputContext(s) ==
    IF Truthy(s.input_context_text) /\ ~Val(s.has_input_context)
    THEN [s EXCEPT !.warnings = @ \cup {[about |-> "input_context_text", suffix |-> <<>>]},
                   !.input_context_text = None]
    ELSE s

\* mutant: the warning is logged and the text is kept
IgnoreOutputContextKeepsText(s) ==
    IF Truthy(s.output_context_text) /\ ~Val(s.has_output_context)
    THEN [s EXCEPT !.warnings = @ \cup {[about |-> "output_context_text", suffix |-> <<>>]}]
    ELSE s

\* lines 249-254
IgnoreOutputContext(s) ==
    IF Truthy(s.output_context_text) /\ ~Val(s.has_output_context)
    THEN [s EXCEPT !.warnings = @ \cup {[about |-> "output_context_text", suffix |-> <<>>]},
                   !.output_context_text = None]
    ELSE s

\* mutant: the text is tested with `is None`, so "" passes
CheckInputContextIsNone(s) ==
    IF s.input_context_text = None /\ Val(s.has_input_context)
    THEN Raise(s, ValueError)
    ELSE s

\* lines 255-259
CheckInputContext(s) ==
    IF ~Truthy(s.input_context_text) /\ Val(s.has_input_context)
    THEN Raise(s, ValueError)
    ELSE s

\* lines 260-261
CheckInputTemplateCurrent(s) ==
    IF ~Contains(Val(s.input_template), CUR) THEN Raise(s, ValueError) ELSE s

\* mutant: the second test reads input_template again
CheckOutputTemplateCurrentReadsInput(s) ==
    IF ~Contains(Val(s.input_template), CUR) THEN Raise(s, ValueError) ELSE s

\* lines 262-263
CheckOutputTemplateCurrent(s) ==
    IF ~Contains(Val(s.output_template), CUR) THEN Raise(s, ValueError) ELSE s

\* lines 264-265
RecheckInputCurrentText(s) ==
    IF InputCurrentTextMissing(s) THEN Raise(s, ValueError) ELSE s

\* mutant: the comparison is reversed
CheckOutputOrderReversed(s) ==
    IF Val(s.has_output_context)
       /\ Find(Val(s.output_template), CTX) < Find(Val(s.output_template), CUR)
    THEN Raise(s, ValueError)
    ELSE s

\* lines 266-269
CheckOutputOrder(s) ==
    IF Val(s.has_output_context)
       /\ Find(Val(s.output_template), CTX) > Find(Val(s.output_template), CUR)
    THEN Raise(s, ValueError)
    ELSE s

\* lines 270-276
WarnOutputSuffix(s) ==
    IF ~EndsWith(Val(s.output_template), CUR)
    THEN [s EXCEPT !.warnings = @ \cup
             {[about |-> "output_template",
               suffix |-> PartitionSuffix(Val(s.output_template), CUR)]}]
    ELSE s

\* an exception has left __post_init__: no later statement runs
Left(s) == s.raised # NoError

\* the statements of __post_init__, in the order of the source
Statement(i, s) ==
    CASE i = 1 -> CheckPreStrategy(s)
      [] i = 2 -> CheckNextTokens(s)
      [] i = 3 -> DefaultInputTemplate(s)
      [] i = 4 -> DefaultOutputTemplate(s)
      [] i = 5 -> DefaultContextlessInput(s)
      [] i = 6 -> SetHasContext(s)
      [] i = 7 -> CheckInputCurrentText(s)
      [] i = 8 -> IgnoreInputContext(s)
      [] i = 9 -> IgnoreOutputContext(s)
      [] i = 10 -> CheckInputContext(s)
      [] i = 11 -> CheckInputTemplateCurrent(s)
      [] i = 12 -> CheckOutputTemplateCurrent(s)
      [] i = 13 -> RecheckInputCurrentText(s)
      [] i = 14 -> CheckOutputOrder(s)
      [] i = 15 -> WarnOutputSuffix(s)

\* statement i, run only if no earlier statement raised
Guarded(i, s) == IF Left(s) THEN s ELSE Statement(i, s)

\* AttributeContextArgs.__post_init__, statement by statement
PostInit(s0) ==
    LET s1 == Guarded(1, s0)
        s2 == Guarded(2, s1)
        s3 == Guarded(3, s2)
        s4 == Guarded(4, s3)
        s5 == Guarded(5, s4)
        s6 == Guarded(6, s5)
        s7 == Guarded(7, s6)
        s8 == Guarded(8, s7)
        s9 == Guarded(9, s8)
        s10 == Guarded(10, s9)
        s11 == Guarded(11, s10)
        s12 == Guarded(12, s11)
        s13 == Guarded(13, s12)
        s14 == Guarded(14, s13)
    IN  Guarded(15, s14)

\* AttributeContextArgs(**kw): the object, or the exception, the call ends in
Construct(kw) == PostInit(NewObject(kw))

\* ----------------------------------------------------------------- state
VARIABLES
    kwargs,                         \* the arguments of the constructor call
    pc,                             \* "post_init" before the hook, "done" after
    input_current_text,
    input_context_text,
    input_template,
    output_context_text,
    output_current_text,
    output_template,
    contextless_input_current_text,
    handle_output_context_strategy,
    contextless_output_next_tokens,
    prompt_user_for_contextless_output_next_tokens,
    has_input_context,
    has_output_context,
    warnings,                       \* what logger.warning was called with
    raised                          \* the exception the call ended in

vars == <<kwargs, pc, input_current_text, input_context_text, input_template,
          output_context_text, output_current_text, output_template,
          contextless_input_current_text, handle_output_context_strategy,
          contextless_output_next_tokens,
          prompt_user_for_contextless_output_next_tokens,
          has_input_context, has_output_context, warnings, raised>>

\* self, as a record
Self ==
    [input_current_text |-> input_current_text,
     input_context_text |-> input_context_text,
     input_template |-> input_template,
     output_context_text |-> output_context_text,
     output_current_text |-> output_current_text,
     output_template |-> output_template,
     contextless_input_current_text |-> contextless_input_current_text,
     handle_output_context_strategy |-> handle_output_context_strategy,
     contextless_output_next_tokens |-> contextless_output_next_tokens,
     prompt_user_for_contextless_output_next_tokens |->
         prompt_user_for_contextless_output_next_tokens,
     has_input_context |-> has_input_context,
     has_output_context |-> has_output_context,
     warnings |-> warnings,
     raised |-> raised]

\* self = o
Holds(o) ==
    /\ input_current_text = o.input_current_text
    /\ input_context_text = o.input_context_text
    /\ input_template = o.input_template
    /\ output_context_text = o.output_context_text
    /\ output_current_text = o.output_current_text
    /\ output_template = o.output_template
    /\ contextless_input_current_text = o.contextless_input_current_text
    /\ handle_output_context_strategy = o.handle_output_context_strategy
    /\ contextless_output_next_tokens = o.contextless_output_next_tokens
    /\ prompt_user_for_contextless_output_next_tokens =
           o.prompt_user_for_contextless_output_next_tokens
    /\ has_input_context = o.has_input_context
    /\ has_output_context = o.has_output_context
    /\ warnings = o.warnings
    /\ raised = o.raised

\* the generated __init__ has stored the arguments; __post_init__ is next
Init ==
    /\ kwargs \in KwArgs
    /\ pc = "post_init"
    /\ Holds(NewObject(kwargs))

\* __post_init__ runs once, to its end or to the statement that raises
RunPostInit ==
    /\ pc = "post_init"
    /\ pc' = "done"
    /\ LET o == PostInit(Self)
       IN  /\ input_current_text' = o.input_current_text
           /\ input_context_text' = o.input_context_text
           /\ input_template' = o.input_template
           /\ output_context_text' = o.output_context_text
           /\ output_current_text' = o.output_current_text
           /\ output_template' = o.output_template
           /\ contextless_input_current_text' = o.contextless_input_current_text
           /\ handle_output_context_strategy' = o.handle_output_context_strategy
           /\ contextless_output_next_tokens' = o.contextless_output_next_tokens
           /\ prompt_user_for_contextless_output_next_tokens' = o.prompt_user_for_contextless_output_next_tokens
           /\ has_input_context' = o.has_input_context
           /\ has_output_context' = o.has_output_context
           /\ warnings' = o.warnings
           /\ raised' = o.raised
    /\ UNCHANGED kwargs

Next == RunPostInit

Spec == Init /\ [][Next]_vars

\* ---------------------------------------------------- vocabulary of claims
Done == pc = "done"
Accepted == Done /\ raised = NoError
Rejected == Done /\ raised # NoError

\* o is a template that holds the "{context}" placeholder
HasCtx(o) == o # None /\ Contains(Val(o), CTX)
\* o is a template that lacks the "{current}" placeholder
LacksCur(o) == o # None /\ ~Contains(Val(o), CUR)
\* a context text that was not supplied, or supplied non-empty
AbsentOrNonEmpty(o) == o = None \/ Truthy(o)

BothNextTokenModes(kw) ==
    Len(kw.contextless_output_next_tokens) > 0
    /\ kw.prompt_user_for_contextless_output_next_tokens

\* the arguments of the input side are consistent
InputSideValid(kw) ==
    IF kw.input_template = None
    THEN AbsentOrNonEmpty(kw.input_context_text)
    ELSE /\ Contains(Val(kw.input_template), CUR)
         /\ HasCtx(kw.input_template) => Truthy(kw.input_context_text)

\* the output template, when supplied, has "{current}" and no "{context}" after it
OutputTemplateValid(kw) ==
    kw.output_template # None =>
        /\ Contains(Val(kw.output_template), CUR)
        /\ HasCtx(kw.output_template) =>
               Find(Val(kw.output_template), CTX) < Find(Val(kw.output_template), CUR)

\* the arguments of the output side are consistent
OutputSideValid(kw) ==
    /\ OutputTemplateValid(kw)
    /\ IF kw.output_template = None
       THEN AbsentOrNonEmpty(kw.output_context_text)
       ELSE HasCtx(kw.output_template) => Truthy(kw.output_context_text)

OtherwiseValid(kw) ==
    /\ kw.input_current_text # ""
    /\ ~BothNextTokenModes(kw)
    /\ InputSideValid(kw)
    /\ OutputSideValid(kw)

DefaultTemplateFor(ctx) ==
    IF Truthy(ctx) THEN Some(<<CTX, SP, CUR>>) ELSE Some(<<CUR>>)

\* ---------------------------------------------------------------- claims
\* C1: under every strategy and for each side, when the side's template is
\* not supplied and the configuration is otherwise valid, construction
\* succeeds and the template is "{context} {current}" if the side's context
\* text was supplied non-empty and "{current}" if it was not supplied.
C1_TemplateDefaulting ==
    (Done /\ OtherwiseValid(kwargs)) =>
        /\ kwargs.input_template = None =>
               /\ raised = NoError
               /\ input_template = DefaultTemplateFor(kwargs.input_context_text)
        /\ kwargs.output_template = None =>
               /\ raised = NoError
               /\ output_template = DefaultTemplateFor(kwargs.output_context_text)

\* C2 as stated: for the input and the output template alike, a template
\* with "{context}" whose context text is missing or empty makes
\* construction fail under every strategy.
C2_ContextPlaceholderNeedsText ==
    Done =>
        /\ (HasCtx(kwargs.input_template) /\ ~Truthy(kwargs.input_context_text))
               => raised # NoError
        /\ (HasCtx(kwargs.output_template) /\ ~Truthy(kwargs.output_context_text))
               => raised # NoError

\* C2 as amended: an input template with "{context}" (supplied or defaulted)
\* without input context text fails under every strategy; an output template
\* with "{context}" without output context text fails under the strategy
\* "pre", and under "manual" and "auto" it is accepted when the rest of the
\* configuration is valid.
C2_ContextPlaceholderNeedsTextAmended ==
    Done =>
        /\ ((HasCtx(kwargs.input_template) \/ HasCtx(input_template))
            /\ ~Truthy(kwargs.input_context_text))
               => raised # NoError
        /\ (handle_output_context_strategy = PRE
            /\ (HasCtx(kwargs.output_template) \/ HasCtx(output_template))
            /\ ~Truthy(kwargs.output_context_text))
               => raised # NoError
        /\ (handle_output_context_strategy # PRE
            /\ HasCtx(kwargs.output_template)
            /\ ~Truthy(kwargs.output_context_text)
            /\ kwargs.input_current_text # ""
            /\ ~BothNextTokenModes(kwargs)
            /\ InputSideValid(kwargs)
            /\ OutputTemplateValid(kwargs))
               => raised = NoError

C2_Witness ==
    /\ Done
    /\ HasCtx(kwargs.input_template)
    /\ kwargs.input_context_text = None
    /\ kwargs.input_current_text = "Hello"
    /\ has_input_context = Some(TRUE)
    /\ raised = ValueError

\* C3: under "pre", an output template with "{context}" and no output context
\* text fails with an invalid-configuration error, and that is the only
\* effect of "pre": what "manual"/"auto" reject "pre" rejects, and what they
\* accept "pre" accepts unless the output template has "{context}" without
\* output context text.
C3_PreStrategyOnlyEffect ==
    (Done /\ kwargs.handle_output_context_strategy = PRE) =>
        /\ (HasCtx(kwargs.output_template) /\ ~Truthy(kwargs.output_context_text))
               => raised = ValueError
        /\ \A m \in {MANUAL, AUTO} :
               LET other == Construct([kwargs EXCEPT !.handle_output_context_strategy = m])
               IN  /\ other.raised # NoError => raised # NoError
                   /\ other.raised = NoError =>
                          \/ raised = NoError
                          \/ /\ HasCtx(other.output_template)
                             /\ ~Truthy(kwargs.output_context_text)

\* C4: an empty input_current_text makes construction fail, whatever the
\* other fields are.
C4_EmptyInputCurrentTextFails ==
    (Done /\ kwargs.input_current_text = "") => raised # NoError

C4_Witness ==
    /\ Done
    /\ kwargs.input_current_text = ""
    /\ InputSideValid(kwargs)
    /\ OutputSideValid(kwargs)
    /\ ~BothNextTokenModes(kwargs)
    /\ has_input_context # None
    /\ raised = ValueError

\* C5: a supplied input_template or output_template without "{current}"
\* makes construction fail; after a successful construction both templates
\* hold "{current}".
C5_TemplatesHoldCurrent ==
    Done =>
        /\ LacksCur(kwargs.input_template) => raised # NoError
        /\ LacksCur(kwargs.output_template) => raised # NoError
        /\ raised = NoError =>
               /\ Contains(Val(input_template), CUR)
               /\ Contains(Val(output_template), CUR)

C5_Witness ==
    /\ Done
    /\ LacksCur(kwargs.output_template)
    /\ ~HasCtx(kwargs.output_template)
    /\ kwargs.input_current_text = "Hello"
    /\ InputSideValid(kwargs)
    /\ ~BothNextTokenModes(kwargs)
    /\ has_output_context = Some(FALSE)
    /\ raised = ValueError

\* a supplied template without "{context}"
SuppliedWithoutCtx(o) == o # None /\ ~Contains(Val(o), CTX)

InputContextWarning == [about |-> "input_context_text", suffix |-> <<>>]
OutputContextWarning == [about |-> "output_context_text", suffix |-> <<>>]

\* C6: a non-empty context text supplied for a side whose template has no
\* "{context}" never causes a failure by itself: construction succeeds
\* exactly when it succeeds without that context text, and on success a
\* warning was logged and the context text of that side is None.
C6_IgnoredContextIsCleared ==
    Done =>
        /\ (Truthy(kwargs.input_context_text) /\ SuppliedWithoutCtx(kwargs.input_template)) =>
               /\ (raised = NoError) <=>
                      (Construct([kwargs EXCEPT !.input_context_text = None]).raised = NoError)
               /\ raised = NoError =>
                      /\ input_context_text = None
                      /\ InputContextWarning \in warnings
        /\ (Truthy(kwargs.output_context_text) /\ SuppliedWithoutCtx(kwargs.output_template)) =>
               /\ (raised = NoError) <=>
                      (Construct([kwargs EXCEPT !.output_context_text = None]).raised = NoError)
               /\ raised = NoError =>
                      /\ output_context_text = None
                      /\ OutputContextWarning \in warnings

C6_Witness ==
    /\ Accepted
    /\ Truthy(kwargs.output_context_text)
    /\ SuppliedWithoutCtx(kwargs.output_template)
    /\ Truthy(kwargs.input_context_text)
    /\ SuppliedWithoutCtx(kwargs.input_template)
    /\ input_context_text = None
    /\ output_context_text = None
    /\ {InputContextWarning, OutputContextWarning} \subseteq warnings

\* C7: non-empty contextless_output_next_tokens together with
\* prompt_user_for_contextless_output_next_tokens makes construction fail;
\* after a successful construction at most one of the two is set.
C7_NextTokenModesExclusive ==
    Done =>
        /\ BothNextTokenModes(kwargs) => raised # NoError
        /\ raised = NoError =>
               ~(Len(contextless_output_next_tokens) > 0
                 /\ prompt_user_for_contextless_output_next_tokens)

C7_Witness ==
    /\ Done
    /\ BothNextTokenModes(kwargs)
    /\ kwargs.input_current_text = "Hello"
    /\ InputSideValid(kwargs)
    /\ OutputSideValid(kwargs)
    /\ kwargs.handle_output_context_strategy = MANUAL
    /\ raised = ValueError

\* a template with both placeholders
HasBoth(t) == Contains(t, CTX) /\ Contains(t, CUR)

\* the tokens of t in the opposite order
Reversed(t) == [i \in 1..Len(t) |-> t[Len(t) + 1 - i]]

\* C8: an output template whose first "{context}" comes after its first
\* "{current}" makes construction fail; an input template with both
\* placeholders is accepted in either order when the rest is valid, and
\* putting its tokens in the opposite order never changes the outcome.
C8_OutputOrderOnly ==
    Done =>
        /\ (/\ kwargs.output_template # None
            /\ HasBoth(Val(kwargs.output_template))
            /\ Find(Val(kwargs.output_template), CTX) > Find(Val(kwargs.output_template), CUR))
               => raised # NoError
        /\ (/\ kwargs.input_template # None
            /\ HasBoth(Val(kwargs.input_template))
            /\ Truthy(kwargs.input_context_text)
            /\ kwargs.input_current_text # ""
            /\ ~BothNextTokenModes(kwargs)
            /\ kwargs.output_template # None
            /\ OutputSideValid(kwargs))
               => raised = NoError
        /\ (kwargs.input_template # None /\ HasBoth(Val(kwargs.input_template))) =>
               Construct([kwargs EXCEPT !.input_template =
                              Some(Reversed(Val(kwargs.input_template)))]).raised = raised

C8_Witness ==
    /\ Done
    /\ kwargs.output_template = Some(<<CUR, CTX>>)
    /\ Truthy(kwargs.output_context_text)
    /\ kwargs.input_template = Some(<<CUR, CTX>>)
    /\ Truthy(kwargs.input_context_text)
    /\ kwargs.input_current_text = "Hello"
    /\ ~BothNextTokenModes(kwargs)
    /\ raised = ValueError

\* the input template is accepted with "{current}" before "{context}"
C8_InputOrderAccepted ==
    /\ Accepted
    /\ input_template = Some(<<CUR, CTX>>)
    /\ has_input_context = Some(TRUE)

\* C9: after a successful construction has_input_context is true exactly
\* when input_template holds "{context}" and exactly when input_context_text
\* is a non-empty string; has_output_context is true exactly when
\* output_template holds "{context}", and a non-empty output_context_text
\* implies has_output_context.
C9_DerivedFlags ==
    Accepted =>
        /\ has_input_context = Some(Contains(Val(input_template), CTX))
        /\ Val(has_input_context) <=> Truthy(input_context_text)
        /\ has_output_context = Some(Contains(Val(output_template), CTX))
        /\ Truthy(output_context_text) => Val(has_output_context)

C9_Witness ==
    /\ Accepted
    /\ kwargs.input_current_text = "Hello"
    /\ kwargs.input_context_text = Some("World")
    /\ kwargs.input_template = None
    /\ input_template = Some(<<CTX, SP, CUR>>)
    /\ has_input_context = Some(TRUE)
    /\ has_output_context = Some(FALSE)

\* C10: a successful construction leaves a supplied input_template,
\* output_template and contextless_input_current_text as supplied, leaves
\* input_current_text, output_current_text, handle_output_context_strategy,
\* contextless_output_next_tokens and
\* prompt_user_for_contextless_output_next_tokens unchanged, overwrites of the
\* supplied values only the two context texts, each only with None, and sets
\* a contextless_input_current_text that was not supplied to "{current}".
C10_Frame ==
    Accepted =>
        /\ kwargs.input_template # None => input_template = kwargs.input_template
        /\ kwargs.output_template # None => output_template = kwargs.output_template
        /\ contextless_input_current_text =
               IF kwargs.contextless_input_current_text = None
               THEN Some(<<CUR>>)
               ELSE kwargs.contextless_input_current_text
        /\ input_current_text = kwargs.input_current_text
        /\ output_current_text = kwargs.output_current_text
        /\ handle_output_context_strategy = kwargs.handle_output_context_strategy
        /\ contextless_output_next_tokens = kwargs.contextless_output_next_tokens
        /\ prompt_user_for_contextless_output_next_tokens =
               kwargs.prompt_user_for_contextless_output_next_tokens
        /\ input_context_text \in {kwargs.input_context_text, None}
        /\ output_context_text \in {kwargs.output_context_text, None}

C10_Witness ==
    /\ Accepted
    /\ kwargs.contextless_input_current_text = Some(<<>>)
    /\ kwargs.input_template = Some(<<CUR>>)
    /\ kwargs.output_template = Some(<<CUR, CUR>>)
    /\ kwargs.output_current_text = Some("Hola")
    /\ Truthy(kwargs.input_context_text)
    /\ input_context_text = None
    /\ Len(kwargs.contextless_output_next_tokens) > 0

====
